---- MODULE Spec2Model ----
(***************************************************************************)
(* The CI/CD demo HTTP service of github-actions-fastapi/app/main.py.      *)
(*                                                                         *)
(* main.py builds one application object (FastAPI(...), lines 3-7) and     *)
(* registers two GET routes on it (lines 9 and 16).  The model follows one *)
(* request through the application: it is received, routed over the        *)
(* application's route table, its endpoint function is called, and the     *)
(* returned dict is sent as a JSON response.  Several requests are in      *)
(* flight at once and their steps interleave.                              *)
(*                                                                         *)
(* A path is the sequence of its segments: "/" is <<>>, "/health" is       *)
(* <<"health">>, and a trailing slash is a last empty segment, so          *)
(* "/health/" is <<"health", "">>.                                         *)
(***************************************************************************)
EXTENDS Integers, Sequences, FiniteSets, TLC

VARIABLES app, pc, request, endpoint, result, response

vars == <<app, pc, request, endpoint, result, response>>

\* Number of requests that are served, possibly concurrently.
MaxRequests == 2

Requests == 1..MaxRequests

None == [none |-> TRUE]

\* The endpoint of a request that was handed to none.
NoEndpoint == ""

-----------------------------------------------------------------------------
(* The inputs of a request.                                                *)

Methods == {"GET", "HEAD", "POST"}

Paths ==
  { <<>>, <<"health">>, <<"health", "">>, <<"missing">>, <<"docs">> }

\* Everything of a request besides its method and path: query string and headers.
PlainRest == [query |-> "", accept |-> "*/*"]

Rest ==
  { PlainRest, [query |-> "status=down", accept |-> "text/html"] }

\* The requests that arrive: a GET request to every path with every query
\* string and headers, a request of another method with the plain ones.
RequestValues ==
  [method : {"GET"}, path : Paths, rest : Rest]
    \cup [method : Methods \ {"GET"}, path : Paths, rest : {PlainRest}]

-----------------------------------------------------------------------------
(* main.py, lines 3-7: the application object.                             *)

DefaultTitle == "CI/CD Demo API"

DefaultDescription == "Complete CI/CD pipeline demonstration"

DefaultVersion == "1.0.0"

\* A route served by an endpoint function of main.py: only the methods it is
\* registered for.
APIRoute(path, methods, name) ==
  [ path |-> path, methods |-> methods, endpoint |-> name,
    include_in_schema |-> TRUE ]

\* A route the application adds for itself; a plain route that serves GET
\* serves HEAD too.
Route(path, name) ==
  [ path |-> path, methods |-> {"GET", "HEAD"}, endpoint |-> name,
    include_in_schema |-> FALSE ]

\* FastAPI(title=..., description=..., version=...): main.py passes no
\* openapi_url, docs_url or redoc_url, so the application sets up its
\* documentation routes at their default paths before any route of main.py.
FastAPI(title, description, version) ==
  [ title       |-> title,
    description |-> description,
    version     |-> version,
    routes      |-> << Route(<<"openapi.json">>, "openapi"),
                       Route(<<"docs">>, "swagger_ui_html"),
                       Route(<<"docs", "oauth2-redirect">>, "swagger_ui_redirect"),
                       Route(<<"redoc">>, "redoc_html") >> ]

\* Variant of app_get: the route serves HEAD as well, as a plain route does.
app_get_with_head(a, path, name) ==
  [a EXCEPT !.routes = Append(@, APIRoute(path, {"GET", "HEAD"}, name))]

\* @app.get(path) applied to a function: appends a GET-only route.
app_get(a, path, name) ==
  [a EXCEPT !.routes = Append(@, APIRoute(path, {"GET"}, name))]

\* Variant of main: health_check is registered at "/health/".
main_trailing_slash(title, description, version) ==
  app_get(app_get(FastAPI(title, description, version),
                  <<>>, "read_root"),
          <<"health", "">>, "health_check")

\* The module once imported: the application with both decorators applied.
main(title, description, version) ==
  app_get(app_get(FastAPI(title, description, version),
                  <<>>, "read_root"),
          <<"health">>, "health_check")

-----------------------------------------------------------------------------
(* main.py, lines 9-18: the two endpoint functions.                        *)

\* Variant of read_root: another value of the status field.
read_root_stopped ==
  [message |-> "Hello from CI/CD Pipeline!", status |-> "stopped"]

\* Variant of read_root: the answer depends on whether a request was
\* answered before, as with a module-level call counter.
read_root_counting ==
  [ message |-> "Hello from CI/CD Pipeline!",
    status  |-> IF \E r \in Requests : pc[r] = "done"
                  THEN "running again" ELSE "running" ]

\* Variant of read_root: the answer depends on the other requests in flight.
read_root_busy ==
  [ message |-> "Hello from CI/CD Pipeline!",
    status  |-> IF Cardinality({ r \in Requests : pc[r] = "dispatched" }) > 1
                  THEN "busy" ELSE "running" ]

read_root ==
  [message |-> "Hello from CI/CD Pipeline!", status |-> "running"]

\* Variant of health_check: another value of the status field.
health_check_ok ==
  [status |-> "ok"]

health_check ==
  [status |-> "healthy"]

-----------------------------------------------------------------------------
(* Responses.                                                              *)

\* A response with a JSON body; the body is the JSON object itself.
JSONResponse(status_code, content) ==
  [ status_code |-> status_code,
    headers     |-> [content_type |-> "application/json", location |-> {}],
    body        |-> content ]

HTMLResponse(content) ==
  [ status_code |-> 200,
    headers     |-> [content_type |-> "text/html", location |-> {}],
    body        |-> [html |-> content] ]

PlainTextResponse(status_code, text) ==
  [ status_code |-> status_code,
    headers     |-> [content_type |-> "text/plain", location |-> {}],
    body        |-> [text |-> text] ]

\* A temporary redirect to path: an empty body and a Location header.
RedirectResponse(path) ==
  [ status_code |-> 307,
    headers     |-> [content_type |-> "", location |-> {path}],
    body        |-> [text |-> ""] ]

\* What the application answers when routing or an endpoint raises.
http_exception(status_code, detail) ==
  JSONResponse(status_code, [detail |-> detail])

-----------------------------------------------------------------------------
(* Routing of a request over the routes of the application.                *)

\* A route matches a request fully, or only by its path, or not at all.
Matches(route, method, path) ==
  IF route.path # path THEN "NONE"
  ELSE IF method \in route.methods THEN "FULL"
  ELSE "PARTIAL"

\* The first route of routes that matches with the given kind, 0 if none.
FirstMatch(routes, kind, method, path) ==
  LET hits == { i \in 1..Len(routes) : Matches(routes[i], method, path) = kind }
  IN  IF hits = {} THEN 0 ELSE CHOOSE i \in hits : \A j \in hits : i <= j

RECURSIVE rstrip(_)
\* path.rstrip("/"): the path without its trailing slashes.
rstrip(path) ==
  IF path # <<>> /\ path[Len(path)] = ""
    THEN rstrip(SubSeq(path, 1, Len(path) - 1))
    ELSE path

\* The path a request is redirected to when only the trailing slash differs.
redirect_path(path) ==
  IF path # <<>> /\ path[Len(path)] = "" THEN rstrip(path) ELSE Append(path, "")

\* The router's decision for a request: the endpoint of the first full match;
\* else 405 for the first route that matches the path only; else a redirect
\* when the path with the trailing slash toggled matches a route; else 404.
router(a, req) ==
  LET full    == FirstMatch(a.routes, "FULL", req.method, req.path)
      partial == FirstMatch(a.routes, "PARTIAL", req.method, req.path)
      other   == redirect_path(req.path)
  IN  IF full # 0
        THEN [endpoint |-> a.routes[full].endpoint]
      ELSE IF partial # 0
        THEN [response |-> http_exception(405, "Method Not Allowed")]
      ELSE IF req.path # <<>>
              /\ \E i \in 1..Len(a.routes) :
                    Matches(a.routes[i], req.method, other) # "NONE"
        THEN [response |-> RedirectResponse(other)]
      ELSE [response |-> http_exception(404, "Not Found")]

-----------------------------------------------------------------------------
(* Calling an endpoint and sending what it returns.                        *)

\* The generated schema: the application's metadata and the paths of main.py.
openapi(a) ==
  [ openapi |-> "3.1.0",
    info    |-> [ title       |-> a.title,
                  description |-> a.description,
                  version     |-> a.version ],
    paths   |-> { a.routes[i].path :
                    i \in { j \in 1..Len(a.routes) : a.routes[j].include_in_schema } } ]

\* The pages the application serves about itself.
documentation(name, a) ==
  CASE name = "openapi" -> JSONResponse(200, openapi(a))
    [] name = "swagger_ui_html" ->
         HTMLResponse([ page        |-> "Swagger UI",
                        title       |-> a.title,
                        openapi_url |-> <<"openapi.json">> ])
    [] name = "swagger_ui_redirect" ->
         HTMLResponse([ page |-> "Swagger UI: OAuth2 Redirect" ])
    [] name = "redoc_html" ->
         HTMLResponse([ page        |-> "ReDoc",
                        title       |-> a.title,
                        openapi_url |-> <<"openapi.json">> ])

\* Variant of run_endpoint_function: health_check raises.
run_endpoint_function_raising(name, a, req) ==
  IF name = "health_check" THEN [raised |-> "RuntimeError"]
  ELSE IF name = "read_root" THEN [returned |-> read_root]
  ELSE [response |-> documentation(name, a)]

\* Variant of run_endpoint_function: health_check takes the query string.
run_endpoint_function_query(name, a, req) ==
  IF name = "health_check"
    THEN [returned |-> [status |-> IF req.rest.query = "status=down"
                                     THEN "down" ELSE "healthy"]]
  ELSE IF name = "read_root" THEN [returned |-> read_root]
  ELSE [response |-> documentation(name, a)]

\* Variant of run_endpoint_function: read_root reports the application's
\* version.
run_endpoint_function_versioned(name, a, req) ==
  IF name = "read_root"
    THEN [returned |-> [ message |-> "Hello from CI/CD Pipeline!",
                         status  |-> IF a.version = "1.0.0"
                                       THEN "running" ELSE a.version ]]
  ELSE IF name = "health_check" THEN [returned |-> health_check]
  ELSE [response |-> documentation(name, a)]

\* The call of the endpoint function a route names.  read_root and
\* health_check declare no parameter, so nothing of the request is passed.
run_endpoint_function(name, a, req) ==
  CASE name = "read_root"    -> [returned |-> read_root]
    [] name = "health_check" -> [returned |-> health_check]
    [] OTHER                 -> [response |-> documentation(name, a)]

\* The response for what an endpoint call produced: a returned dict becomes
\* a 200 JSON response, a response is sent as it is, an exception is a 500.
serialize_response(res) ==
  IF "returned" \in DOMAIN res THEN JSONResponse(200, res.returned)
  ELSE IF "response" \in DOMAIN res THEN res.response
  ELSE PlainTextResponse(500, "Internal Server Error")

\* The response to a request that is served alone, from receipt to answer.
Serve(a, req) ==
  LET d == router(a, req)
  IN  IF "endpoint" \in DOMAIN d
        THEN serialize_response(run_endpoint_function(d.endpoint, a, req))
        ELSE d.response

-----------------------------------------------------------------------------
(* The service: requests in flight over one application object.            *)

Init ==
  /\ app = main(DefaultTitle, DefaultDescription, DefaultVersion)
  /\ pc = [r \in Requests |-> "idle"]
  /\ request = [r \in Requests |-> None]
  /\ endpoint = [r \in Requests |-> NoEndpoint]
  /\ result = [r \in Requests |-> None]
  /\ response = [r \in Requests |-> None]

\* A request arrives at the application.
Receive(r, req) ==
  /\ pc[r] = "idle"
  /\ request' = [request EXCEPT ![r] = req]
  /\ pc' = [pc EXCEPT ![r] = "received"]
  /\ UNCHANGED <<app, endpoint, result, response>>

\* The router finds the request's endpoint and hands the request to it.
Dispatch(r) ==
  /\ pc[r] = "received"
  /\ "endpoint" \in DOMAIN router(app, request[r])
  /\ endpoint' = [endpoint EXCEPT ![r] = router(app, request[r]).endpoint]
  /\ pc' = [pc EXCEPT ![r] = "dispatched"]
  /\ UNCHANGED <<app, request, result, response>>

\* The router finds no endpoint and answers the request itself.
Reject(r) ==
  /\ pc[r] = "received"
  /\ "response" \in DOMAIN router(app, request[r])
  /\ response' = [response EXCEPT ![r] = router(app, request[r]).response]
  /\ pc' = [pc EXCEPT ![r] = "done"]
  /\ UNCHANGED <<app, request, endpoint, result>>

\* The endpoint function runs and returns.
RunEndpoint(r) ==
  /\ pc[r] = "dispatched"
  /\ result' = [result EXCEPT ![r] =
                  run_endpoint_function(endpoint[r], app, request[r])]
  /\ pc' = [pc EXCEPT ![r] = "returned"]
  /\ UNCHANGED <<app, request, endpoint, response>>

\* The returned value is serialized and the response is sent.
SendResponse(r) ==
  /\ pc[r] = "returned"
  /\ response' = [response EXCEPT ![r] = serialize_response(result[r])]
  /\ pc' = [pc EXCEPT ![r] = "done"]
  /\ UNCHANGED <<app, request, endpoint, result>>

\* A step of the task that serves request r.
Step(r) ==
  \/ Dispatch(r)
  \/ Reject(r)
  \/ RunEndpoint(r)
  \/ SendResponse(r)

Next ==
  \E r \in Requests :
    \/ \E req \in RequestValues : Receive(r, req)
    \/ Step(r)

Spec == Init /\ [][Next]_vars

\* The event loop and its thread pool run every task that is ready: a request
\* that was received is routed, an endpoint that was called returns, and a
\* returned value is sent.  Nothing makes a request arrive.
Fairness ==
  \A r \in Requests : WF_vars(Step(r))

FairSpec == Spec /\ Fairness

\* The values of (title, description, version) the application is built with:
\* those of main.py and others.
MetadataValues ==
  { <<DefaultTitle, DefaultDescription, DefaultVersion>>,
    <<"Staging API", "", "2.0.0">> }

InitMeta ==
  /\ \E m \in MetadataValues : app = main(m[1], m[2], m[3])
  /\ pc = [r \in Requests |-> "idle"]
  /\ request = [r \in Requests |-> None]
  /\ endpoint = [r \in Requests |-> NoEndpoint]
  /\ result = [r \in Requests |-> None]
  /\ response = [r \in Requests |-> None]

SpecMeta == InitMeta /\ [][Next]_vars

-----------------------------------------------------------------------------
(* Properties of the service.                                              *)

\* Request r was answered.
Done(r) == pc[r] = "done"

\* Request r is a request of the given method to the given path.
Is(r, method, path) ==
  /\ pc[r] # "idle"
  /\ request[r].method = method
  /\ request[r].path = path

RootPath == <<>>

HealthPath == <<"health">>

\* The paths main.py registers.
DefinedPaths == {RootPath, HealthPath}

\* The paths of the application's own documentation routes.
DocumentationPaths ==
  { <<"openapi.json">>, <<"docs">>, <<"docs", "oauth2-redirect">>, <<"redoc">> }

\* C1: every answered GET request to "/" has status 200 and a body that is
\* exactly the object {"message": "Hello from CI/CD Pipeline!",
\* "status": "running"}, with no other field.
C1_RootResponse ==
  \A r \in Requests :
    Done(r) /\ Is(r, "GET", RootPath) =>
      /\ response[r].status_code = 200
      /\ DOMAIN response[r].body = {"message", "status"}
      /\ response[r].body.message = "Hello from CI/CD Pipeline!"
      /\ response[r].body.status = "running"

C1_Witness ==
  \E r \in Requests :
    /\ Done(r) /\ Is(r, "GET", RootPath)
    /\ endpoint[r] = "read_root"
    /\ response[r].status_code = 200

\* C2: every answered GET request to "/health" has status 200 and a body
\* that is exactly the one-field object {"status": "healthy"}.
C2_HealthResponse ==
  \A r \in Requests :
    Done(r) /\ Is(r, "GET", HealthPath) =>
      /\ response[r].status_code = 200
      /\ DOMAIN response[r].body = {"status"}
      /\ response[r].body.status = "healthy"

C2_Witness ==
  \E r \in Requests :
    /\ Done(r) /\ Is(r, "GET", HealthPath)
    /\ endpoint[r] = "health_check"
    /\ response[r].status_code = 200

\* Any two answered GET requests to the same defined path got the same
\* status and body.
SameAnswers ==
  \A r, s \in Requests :
    \A path \in DefinedPaths :
      /\ Done(r) /\ Is(r, "GET", path)
      /\ Done(s) /\ Is(s, "GET", path)
      => /\ response[r].status_code = response[s].status_code
         /\ response[r].body = response[s].body

\* C3: the endpoints are idempotent: no step of a request changes the
\* application object, and a later call of an endpoint is answered as the
\* earlier calls of it were.
C3_Idempotent ==
  [][app' = app /\ SameAnswers']_vars

C3_Witness ==
  \E r, s \in Requests :
    /\ r # s
    /\ Done(r) /\ Is(r, "GET", RootPath)
    /\ Done(s) /\ Is(s, "GET", RootPath)
    /\ response[r] = response[s]

\* C4 as stated: every answered request whose path is not "/" or "/health"
\* has a status other than 200.
C4_Original ==
  \A r \in Requests :
    Done(r) /\ request[r].path \notin DefinedPaths =>
      response[r].status_code # 200

\* C4, amended: every answered request whose path is neither "/" nor
\* "/health" nor one of the application's documentation paths has a status
\* other than 200.
C4_UndefinedPaths ==
  \A r \in Requests :
    Done(r) /\ request[r].path \notin (DefinedPaths \cup DocumentationPaths) =>
      response[r].status_code # 200

C4_Witness ==
  /\ \E r \in Requests :
       /\ Done(r) /\ Is(r, "GET", <<"missing">>)
       /\ response[r].status_code = 404
  /\ \E r \in Requests :
       /\ Done(r) /\ Is(r, "GET", <<"health", "">>)
       /\ response[r].status_code = 307

\* Every answered request has the response it gets when served alone.
AsAlone ==
  \A r \in Requests : Done(r) => response[r] = Serve(app, request[r])

\* A step changes nothing of a request whose position it does not advance,
\* and nothing of the application object.
OwnStateOnly ==
  /\ app' = app
  /\ \A r \in Requests :
       pc'[r] = pc[r] =>
         /\ request'[r] = request[r]
         /\ endpoint'[r] = endpoint[r]
         /\ result'[r] = result[r]
         /\ response'[r] = response[r]

\* C5: under every interleaving of the requests' steps, each request is
\* answered as if served alone, and a step of one request touches no state
\* of another request.
C5_Isolation ==
  [][OwnStateOnly /\ AsAlone']_vars

C5_Witness ==
  \E r, s \in Requests :
    /\ r # s
    /\ Done(r) /\ Is(r, "GET", RootPath)
    /\ pc[s] = "returned" /\ Is(s, "GET", HealthPath)

\* Request r was handed to read_root or health_check.
Handled(r) ==
  pc[r] \in {"dispatched", "returned", "done"}
    /\ endpoint[r] \in {"read_root", "health_check"}

\* C6: a request dispatched to read_root or health_check is eventually
\* answered, and answered with status 200.  Being dispatched and being
\* answered are both final, so this is: from some point on, every request
\* that was dispatched to one of the two stands answered with status 200.
C6_NoFailure ==
  \A r \in Requests :
    <>[](Handled(r) => Done(r) /\ response[r].status_code = 200)

C6_Witness ==
  \E r, s \in Requests :
    /\ Done(r) /\ endpoint[r] = "read_root" /\ response[r].status_code = 200
    /\ Done(s) /\ endpoint[s] = "health_check" /\ response[s].status_code = 200

\* C7: the answer to a GET request to "/" or "/health" is a function of
\* method and path alone: with any other query string and headers the same
\* request is answered with the same status and body, and two answered
\* requests that differ only there have the same status and body.
C7_NoInputs ==
  \A r \in Requests :
    \A path \in DefinedPaths :
      Done(r) /\ Is(r, "GET", path) =>
        /\ \A rest \in Rest :
             LET other == Serve(app, [request[r] EXCEPT !.rest = rest])
             IN  /\ other.status_code = response[r].status_code
                 /\ other.body = response[r].body
        /\ \A s \in Requests :
             Done(s) /\ Is(s, "GET", path) /\ request[s].rest # request[r].rest
               => /\ response[s].status_code = response[r].status_code
                  /\ response[s].body = response[r].body

C7_Witness ==
  \E r, s \in Requests :
    /\ Done(r) /\ Is(r, "GET", HealthPath)
    /\ Done(s) /\ Is(s, "GET", HealthPath)
    /\ request[r].rest.query = ""
    /\ request[s].rest.query = "status=down"

\* C8: a request to "/" or "/health" with a method other than GET is never
\* handed to read_root or health_check, and is never answered with status 200
\* and the route's body.
C8_GetOnly ==
  \A r \in Requests :
    \A path \in DefinedPaths :
      pc[r] # "idle" /\ request[r].path = path /\ request[r].method # "GET" =>
        /\ endpoint[r] = NoEndpoint
        /\ pc[r] \notin {"dispatched", "returned"}
        /\ Done(r) =>
             ~ /\ response[r].status_code = 200
               /\ response[r].body \in {read_root, health_check}

C8_Witness ==
  /\ \E r \in Requests :
       /\ Done(r) /\ Is(r, "POST", HealthPath)
       /\ response[r].status_code = 405
  /\ \E r \in Requests :
       /\ Done(r) /\ Is(r, "HEAD", RootPath)
       /\ response[r].status_code = 405

\* The endpoints that show the application's metadata.
MetadataEndpoints == {"openapi", "swagger_ui_html", "redoc_html"}

\* C9: whatever the title, description and version of the application, a GET
\* request to "/" or "/health" is answered as the application of main.py
\* answers it; an answer differs from that one only at a documentation
\* endpoint.
C9_MetadataFrame ==
  \A r \in Requests :
    Done(r) =>
      LET reference == Serve(main(DefaultTitle, DefaultDescription,
                                  DefaultVersion), request[r])
      IN  /\ endpoint[r] \notin MetadataEndpoints => response[r] = reference
          /\ \A path \in DefinedPaths :
               Is(r, "GET", path) =>
                 /\ response[r].status_code = reference.status_code
                 /\ response[r].body = reference.body

C9_Witness ==
  /\ app.version # DefaultVersion
  /\ app.title # DefaultTitle
  /\ \E r \in Requests :
       /\ Done(r) /\ Is(r, "GET", RootPath)
       /\ response[r].body = read_root
  /\ \E r \in Requests :
       /\ Done(r) /\ Is(r, "GET", <<"docs">>)
       /\ response[r].body.html.title = app.title

====
